---------------------------- MODULE Spec2Model ----------------------------
(***************************************************************************)
(* Model of the real-time synchronisation subsystem of                     *)
(* secure-messenger-desktop: the renderer's WebSocketManager               *)
(* (src/services/websocket.ts) with the Redux slices it dispatches to, the *)
(* browser WebSocket objects it creates, the timers it sets, and the main  *)
(* process's WebSocket server with its broadcast loop and SQLite store.    *)
(*                                                                         *)
(* Every handler (a socket callback, a timer callback, an API call, a      *)
(* server callback) is one atomic action: JavaScript runs callbacks one at *)
(* a time.  Which pending callback runs next is nondeterministic.          *)
(***************************************************************************)
EXTENDS Integers, Sequences, FiniteSets, TLC

(***************************************************************************)
(* Bounds of the model.                                                    *)
(***************************************************************************)
\* WebSocket objects of the renderer that are alive at the same time
MaxSockets == 2
\* timers of the renderer that are pending at the same time
MaxTimers == 4
\* messages the broadcaster manufactures in one run
MaxMsgs == 2
\* frames buffered on one socket and not yet handed to onmessage
MaxInbox == 1
\* largest value Date.now() returns in one run
MaxClock == 2
\* API calls (connect, disconnect) made on the manager in one run
MaxCalls == 2
\* cap of WebSocketManager.reconnectAttempt (the code has none)
MaxAttemptCount == 6
\* cap of the connection slice's reconnectAttempt (the code has none)
MaxCloseCount == 7

(***************************************************************************)
(* Program constants.                                                      *)
(***************************************************************************)
maxReconnectAttempts == 5
HEARTBEAT_INTERVAL == 10000
HEARTBEAT_TIMEOUT == 5000

\* The chats of a database file (seedDatabase names 200; two stand for them).
ChatIds == {"c1", "c2"}

Null == 0

Min(a, b) == IF a < b THEN a ELSE b

RECURSIVE Pow2(_)
Pow2(n) == IF n = 0 THEN 1 ELSE 2 * Pow2(n - 1)

VARIABLES
    mgr,        \* the fields of the WebSocketManager singleton
    timers,     \* the renderer's pending timers (setTimeout / setInterval)
    socks,      \* the WebSocket objects the manager created
    conn,       \* Redux connection slice
    chats,      \* Redux chats slice
    messages,   \* Redux messages slice
    app,        \* lifecycle of the Electron main process (main.js)
    server,     \* the WebSocket server module: wss, messageIntervalId, its timers
    db,         \* SQLite store: chats and messages tables
    nextMsgId,  \* next fresh message id (uuid())
    clock,      \* Date.now()
    calls,      \* history: the API calls made on the manager, oldest first
    requests,   \* the thunks of the renderer that are pending (not settled)
    last,       \* history: the handler that ran last
    applied     \* history: how often handleNewMessage ran for each broadcast

vars == <<mgr, timers, socks, conn, chats, messages, app, server, db,
          nextMsgId, clock, calls, requests, last, applied>>

SockIds == 1..MaxSockets
TimerIds == 1..MaxTimers
MsgIds == 1..MaxMsgs

(***************************************************************************)
(* Redux connection slice (connectionSlice.ts).                            *)
(***************************************************************************)
ConnInitialState ==
    [status |-> "disconnected", lastHeartbeat |-> 0, reconnectAttempt |-> 0,
     error |-> "null"]

setConnecting(c) == [c EXCEPT !.status = "connecting", !.error = "null"]

setConnected_NoReset(c, now) ==
    [c EXCEPT !.status = "connected", !.error = "null", !.lastHeartbeat = now]

setConnected(c, now) ==
    [c EXCEPT !.status = "connected", !.reconnectAttempt = 0,
              !.error = "null", !.lastHeartbeat = now]

setDisconnected(c) ==
    [c EXCEPT !.status = "disconnected", !.reconnectAttempt = @ + 1]

setConnectionError(c, msg) == [c EXCEPT !.status = "error", !.error = msg]

updateHeartbeat(c, now) == [c EXCEPT !.lastHeartbeat = now]

\* The two error strings the manager dispatches.
ErrSocket == "WebSocket error"
ErrMax == "Max reconnection attempts reached. Please restart app."

(***************************************************************************)
(* Redux chats slice (chatsSlice) and messages slice (messagesSlice.ts).   *)
(***************************************************************************)
ChatsInitialState ==
    [items |-> <<>>, total |-> 0, hasMore |-> TRUE, currentOffset |-> 0,
     loading |-> FALSE, error |-> "null"]

MessagesInitialState ==
    [items |-> <<>>, selectedChatId |-> "null", total |-> 0, hasMore |-> TRUE,
     currentOffset |-> 0, loading |-> FALSE, error |-> "null"]

\* state.items.find(c => c.id === id): the index of the first such chat, or 0
FindChat(items, id) ==
    IF \E i \in 1..Len(items) : items[i].id = id
    THEN CHOOSE i \in 1..Len(items) :
            /\ items[i].id = id
            /\ \A j \in 1..(i - 1) : items[j].id # id
    ELSE 0

incrementChatUnread(c, id, now) ==
    LET i == FindChat(c.items, id) IN
    IF i = 0 THEN c
    ELSE [c EXCEPT !.items[i].unreadCount = @ + 1,
                   !.items[i].lastMessageAt = now]

markChatRead(c, id) ==
    LET i == FindChat(c.items, id) IN
    IF i = 0 THEN c ELSE [c EXCEPT !.items[i].unreadCount = 0]

addMessage_Always(m, msg) == [m EXCEPT !.items = Append(@, msg)]

addMessage(m, msg) ==
    IF m.selectedChatId = msg.chatId
    THEN [m EXCEPT !.items = Append(@, msg)]
    ELSE m

setSelectedChat(m, id) ==
    [m EXCEPT !.selectedChatId = id, !.items = <<>>, !.currentOffset = 0,
              !.error = "null"]

clearMessages(m) ==
    [m EXCEPT !.items = <<>>, !.selectedChatId = "null", !.currentOffset = 0]

\* fetchChats.pending / fetchMessages.pending
fetchPending(sl) == [sl EXCEPT !.loading = TRUE, !.error = "null"]

\* fetchChats.fulfilled / fetchMessages.fulfilled
fetchFulfilled(sl, payload) ==
    [sl EXCEPT !.loading = FALSE, !.items = payload.rows,
               !.total = payload.total, !.hasMore = payload.hasMore]

fetchRejected_ClearingItems(sl, msg) ==
    [sl EXCEPT !.loading = FALSE, !.error = msg, !.items = <<>>]

\* fetchChats.rejected / fetchMessages.rejected
fetchRejected(sl, msg) == [sl EXCEPT !.loading = FALSE, !.error = msg]


(***************************************************************************)
(* Timers.  A pending timer is a record; a handle is its id.  A handle     *)
(* whose timer has fired or was cleared is kept as Null: clearTimeout and  *)
(* clearInterval do nothing for either, and the code reads a handle only   *)
(* to clear it.  A timer whose handle was overwritten stays pending.       *)
(* parent is the interval timer whose callback set a heartbeat timeout,    *)
(* att the reconnectAttempt a reconnect timer was scheduled with.          *)
(***************************************************************************)
UsedTimerIds(ts) == {t.id : t \in ts} \cup {t.parent : t \in ts}

CanSetTimer(ts) == TimerIds \ UsedTimerIds(ts) # {}

FreshTimer(ts) ==
    CHOOSE i \in TimerIds \ UsedTimerIds(ts) :
        \A j \in TimerIds \ UsedTimerIds(ts) : i <= j

\* setTimeout / setInterval: the timer that is added
NewTimer(ts, kind, delay, parent, att) ==
    [id |-> FreshTimer(ts), kind |-> kind, delay |-> delay, parent |-> parent,
     att |-> att]

\* a handle after the timer h is gone
DeadHandle(x, h) == IF x = h THEN Null ELSE x

\* clearTimeout / clearInterval in w, and a timer of w that fires for the last
\* time: the timer is no longer pending
clearTimer(w, h) ==
    [w EXCEPT !.timers = {t \in @ : t.id # h},
              !.mgr.reconnectTimeout = DeadHandle(@, h),
              !.mgr.heartbeatInterval = DeadHandle(@, h),
              !.mgr.heartbeatTimeout = DeadHandle(@, h)]

(***************************************************************************)
(* Browser WebSocket objects.  rs is readyState; srv is the server's end   *)
(* of the connection: "none" (not accepted), "alive" (in wss.clients,      *)
(* isAlive true), "probing" (isAlive false, ping sent), "closed"; failed   *)
(* says that the close event is preceded by an error event (the socket     *)
(* never opened); inbox holds the frames not yet handed to onmessage.      *)
(***************************************************************************)
FreeSock == [rs |-> "FREE", srv |-> "none", failed |-> FALSE, inbox |-> <<>>]

CanOpenSock(ss) == \E s \in SockIds : ss[s].rs = "FREE"

FreshSock(ss) ==
    CHOOSE s \in SockIds :
        /\ ss[s].rs = "FREE"
        /\ \A r \in SockIds : ss[r].rs = "FREE" => s <= r

\* WebSocket.close()
closeSock(ss, s) ==
    IF ss[s].rs = "CONNECTING"
    THEN [ss EXCEPT ![s].rs = "CLOSING", ![s].failed = TRUE, ![s].inbox = <<>>]
    ELSE IF ss[s].rs = "OPEN"
    THEN [ss EXCEPT ![s].rs = "CLOSING", ![s].inbox = <<>>]
    ELSE ss

(***************************************************************************)
(* WebSocketManager (websocket.ts).  Its methods are operators on the      *)
(* record w of what they read and write: the manager's fields, the timers, *)
(* the sockets and the connection slice.                                   *)
(***************************************************************************)
MgrInit ==
    [ws |-> Null, reconnectAttempt |-> 0, reconnectTimeout |-> Null,
     heartbeatInterval |-> Null, heartbeatTimeout |-> Null]

World == [mgr |-> mgr, timers |-> timers, socks |-> socks, conn |-> conn]

\* connect(): new WebSocket(WS_URL) does not throw for the constant URL, so
\* the catch branch is not taken.
connect(w) ==
    LET s == FreshSock(w.socks) IN
    [w EXCEPT !.conn = setConnecting(@),
              !.socks[s] = [FreeSock EXCEPT !.rs = "CONNECTING"],
              !.mgr.ws = s]

stopHeartbeat(w) ==
    LET w1 == IF w.mgr.heartbeatInterval # Null
              THEN clearTimer(w, w.mgr.heartbeatInterval)
              ELSE w
    IN IF w1.mgr.heartbeatTimeout # Null
       THEN clearTimer(w1, w1.mgr.heartbeatTimeout)
       ELSE w1

disconnect_Dispatching(w) ==
    LET w1 == stopHeartbeat(w)
        w2 == IF w1.mgr.reconnectTimeout # Null
              THEN clearTimer(w1, w1.mgr.reconnectTimeout)
              ELSE w1
        w3 == [w2 EXCEPT !.conn = setDisconnected(@)]
    IN IF w3.mgr.ws # Null
       THEN [w3 EXCEPT !.socks = closeSock(@, w3.mgr.ws), !.mgr.ws = Null]
       ELSE w3

disconnect(w) ==
    LET w1 == stopHeartbeat(w)
        w2 == IF w1.mgr.reconnectTimeout # Null
              THEN clearTimer(w1, w1.mgr.reconnectTimeout)
              ELSE w1
    IN IF w2.mgr.ws # Null
       THEN [w2 EXCEPT !.socks = closeSock(@, w2.mgr.ws), !.mgr.ws = Null]
       ELSE w2

ReconnectDelay_Linear(a) == Min((a + 1) * 1000, 30000)

\* const delay = Math.min(Math.pow(2, attempt) * 1000, 30000)
ReconnectDelay(a) == Min(Pow2(a) * 1000, 30000)

scheduleReconnect(w) ==
    LET a == w.mgr.reconnectAttempt IN
    IF a < maxReconnectAttempts
    THEN LET t == NewTimer(w.timers, "reconnect", ReconnectDelay(a), Null, a)
         IN [w EXCEPT !.timers = @ \cup {t}, !.mgr.reconnectTimeout = t.id]
    ELSE [w EXCEPT !.conn = setConnectionError(@, ErrMax)]

\* scheduleReconnect sets a timer in this state
SchedulesTimer(w) == w.mgr.reconnectAttempt < maxReconnectAttempts

startHeartbeat(w) ==
    LET t == NewTimer(w.timers, "hbInterval", HEARTBEAT_INTERVAL, Null, 0)
    IN [w EXCEPT !.timers = @ \cup {t}, !.mgr.heartbeatInterval = t.id]

onopen_KeepAttempt(w, now) ==
    startHeartbeat([w EXCEPT !.conn = setConnected(@, now)])

\* ws.onopen
onopen(w, now) ==
    startHeartbeat([w EXCEPT !.conn = setConnected(@, now),
                             !.mgr.reconnectAttempt = 0])

\* ws.onclose
onclose(w) ==
    scheduleReconnect(stopHeartbeat([w EXCEPT !.conn = setDisconnected(@)]))

\* ws.onerror
onerror(w) == [w EXCEPT !.conn = setConnectionError(@, ErrSocket)]

handlePong(w, now) ==
    LET w1 == IF w.mgr.heartbeatTimeout # Null
              THEN clearTimer(w, w.mgr.heartbeatTimeout)
              ELSE w
    IN [w1 EXCEPT !.conn = updateHeartbeat(@, now)]

\* getStatus()
getStatus(w) ==
    IF w.mgr.ws = Null THEN "disconnected"
    ELSE IF w.socks[w.mgr.ws].rs = "CONNECTING" THEN "connecting"
    ELSE IF w.socks[w.mgr.ws].rs = "OPEN" THEN "connected"
    ELSE "disconnected"

(***************************************************************************)
(* The state kept after a handler: a closed WebSocket object that the      *)
(* manager no longer references is garbage (its slot is free again).       *)
(***************************************************************************)
Collect(w) ==
    [w EXCEPT
        !.socks = [s \in SockIds |->
                     IF w.socks[s].rs = "CLOSED" /\ w.mgr.ws # s
                     THEN FreeSock ELSE w.socks[s]]]

Commit(w) ==
    LET c == Collect(w) IN
    /\ mgr' = c.mgr
    /\ timers' = c.timers
    /\ socks' = c.socks
    /\ conn' = c.conn

(***************************************************************************)
(* SQLite store (db module).  chats is the chats table in rowid order,     *)
(* messages the messages table in rowid order.                             *)
(***************************************************************************)
\* initializeDatabase() on a new file: the tables are created empty, and
\* seedDatabase() inserts the messages of a chat before the chat's row, so the
\* first INSERT fails on the foreign key (foreign_keys = ON, not deferred),
\* the transaction is rolled back and the error is logged
DbInit == [chats |-> <<>>, messages |-> <<>>]

\* a database file that holds chats already (chatCount.count > 0: no seeding)
DbSeeded ==
    [chats |-> << [id |-> "c1", lastMessageAt |-> 0, unreadCount |-> 0],
                  [id |-> "c2", lastMessageAt |-> 0, unreadCount |-> 0] >>,
     messages |-> << [id |-> -1, chatId |-> "c1", ts |-> 0],
                     [id |-> -2, chatId |-> "c2", ts |-> 0] >>]

\* the file initializeDatabase() opens at dbPath
DbFiles == {DbInit, DbSeeded}

\* insertMessage: the INSERT throws on a duplicate id and on an unknown chat
\* (the foreign key); the UPDATE follows it.
insertMessageThrows(d, chatId, messageId) ==
    \/ \E i \in 1..Len(d.messages) : d.messages[i].id = messageId
    \/ \A i \in 1..Len(d.chats) : d.chats[i].id # chatId

\* the statement of insertMessage at which SQLite reports an error of its own
\* (disk full, I/O error, database locked)
StoreFaults == {"none", "insert", "update"}

\* the INSERT statement, committed on its own (no transaction is open)
InsertRow(d, chatId, messageId, ts) ==
    [d EXCEPT !.messages =
        Append(@, [id |-> messageId, chatId |-> chatId, ts |-> ts])]

UpdateChat_AlwaysIncrement(d, chatId, ts, increment_unread) ==
    [d EXCEPT !.chats =
        [i \in 1..Len(d.chats) |->
           IF d.chats[i].id = chatId
           THEN [d.chats[i] EXCEPT !.lastMessageAt = ts,
                                   !.unreadCount = @ + 1]
           ELSE d.chats[i]]]

\* the UPDATE statement
UpdateChat(d, chatId, ts, increment_unread) ==
    [d EXCEPT !.chats =
        [i \in 1..Len(d.chats) |->
           IF d.chats[i].id = chatId
           THEN [d.chats[i] EXCEPT
                    !.lastMessageAt = ts,
                    !.unreadCount = IF increment_unread THEN @ + 1 ELSE @]
           ELSE d.chats[i]]]

\* insertMessage(chatId, messageId, ts, sender, body, increment_unread): the
\* database it leaves, and whether it threw (the catch logs and rethrows)
insertMessageRun(d, chatId, messageId, ts, increment_unread, fault) ==
    IF insertMessageThrows(d, chatId, messageId) \/ fault = "insert"
    THEN [db |-> d, threw |-> TRUE]
    ELSE IF fault = "update"
    THEN [db |-> InsertRow(d, chatId, messageId, ts), threw |-> TRUE]
    ELSE [db |-> UpdateChat(InsertRow(d, chatId, messageId, ts), chatId, ts,
                            increment_unread),
          threw |-> FALSE]

\* insertMessage when SQLite reports no error of its own
insertMessage(d, chatId, messageId, ts, increment_unread) ==
    insertMessageRun(d, chatId, messageId, ts, increment_unread, "none").db

\* ORDER BY key DESC of rows given in rowid order; rows with equal keys stay
\* in rowid order (the order of the index scan)
RowKey(r) == IF "ts" \in DOMAIN r THEN r.ts ELSE r.lastMessageAt

RECURSIVE InsertDesc(_, _)
InsertDesc(sorted, x) ==
    IF sorted = <<>> THEN <<x>>
    ELSE IF RowKey(Head(sorted)) >= RowKey(x)
    THEN <<Head(sorted)>> \o InsertDesc(Tail(sorted), x)
    ELSE <<x>> \o sorted

RECURSIVE SortDesc(_)
SortDesc(rows) ==
    IF rows = <<>> THEN <<>>
    ELSE InsertDesc(SortDesc(SubSeq(rows, 1, Len(rows) - 1)), rows[Len(rows)])

\* LIMIT limit OFFSET offset
Window(rows, offset, limit) ==
    SubSeq(rows, offset + 1, Min(offset + limit, Len(rows)))

Reverse(rows) == [i \in 1..Len(rows) |-> rows[Len(rows) + 1 - i]]

getChats_Overlapping(d, offset, limit) ==
    [rows |-> Window(SortDesc(d.chats), IF offset > 0 THEN offset - 1 ELSE 0,
                     limit),
     total |-> Len(d.chats),
     hasMore |-> offset + limit < Len(d.chats)]

getChats(d, offset, limit) ==
    [rows |-> Window(SortDesc(d.chats), offset, limit),
     total |-> Len(d.chats),
     hasMore |-> offset + limit < Len(d.chats)]

MessagesOf(d, chatId) ==
    LET Of(m) == m.chatId = chatId IN SelectSeq(d.messages, Of)

getMessages_NewestFirst(d, chatId, offset, limit) ==
    [rows |-> Window(SortDesc(MessagesOf(d, chatId)), offset, limit),
     total |-> Len(MessagesOf(d, chatId)),
     hasMore |-> offset + limit < Len(MessagesOf(d, chatId))]

getMessages(d, chatId, offset, limit) ==
    [rows |-> Reverse(Window(SortDesc(MessagesOf(d, chatId)), offset, limit)),
     total |-> Len(MessagesOf(d, chatId)),
     hasMore |-> offset + limit < Len(MessagesOf(d, chatId))]

\* markChatAsRead(chatId)
markChatAsRead(d, chatId) ==
    [d EXCEPT !.chats = [i \in 1..Len(d.chats) |->
                           IF d.chats[i].id = chatId
                           THEN [d.chats[i] EXCEPT !.unreadCount = 0]
                           ELSE d.chats[i]]]

(***************************************************************************)
(* Wire frames.  A frame whose text is not JSON has type "MALFORMED", one  *)
(* with a type the client does not know has type "UNKNOWN".                *)
(***************************************************************************)
Frame(type, chatId, messageId, ts) ==
    [type |-> type, chatId |-> chatId, messageId |-> messageId, ts |-> ts]

PeerFrameTypes == {"PING", "PONG", "UNKNOWN", "MALFORMED"}

\* the server's end of socket s is in wss.clients with readyState OPEN
SrvOpen(ss, s) == ss[s].srv \in {"alive", "probing"}

\* the client's end still takes frames from the network
Receiving(ss, s) == ss[s].rs \in {"CONNECTING", "OPEN"}

broadcastToClients_StopAtFailure(ss, f, failing) ==
    [s \in SockIds |->
        IF SrvOpen(ss, s) /\ Receiving(ss, s)
           /\ \A r \in failing : SrvOpen(ss, r) => s < r
        THEN [ss[s] EXCEPT !.inbox = Append(@, f)]
        ELSE ss[s]]

\* broadcastToClients(event): wss.clients.forEach sends to every client whose
\* readyState is OPEN; failing are the clients whose send reports an error to
\* its callback, which logs it
broadcastToClients(ss, f, failing) ==
    [s \in SockIds |->
        IF SrvOpen(ss, s) /\ Receiving(ss, s) /\ s \notin failing
        THEN [ss[s] EXCEPT !.inbox = Append(@, f)]
        ELSE ss[s]]

\* every socket a broadcast reaches has room for one more frame
InboxRoom(ss) ==
    \A s \in SockIds :
        SrvOpen(ss, s) /\ Receiving(ss, s) => Len(ss[s].inbox) < MaxInbox

(***************************************************************************)
(* Initial state: a constructed manager, the initial state of each slice,  *)
(* the database of a new file, the main process not yet ready.             *)
(***************************************************************************)
Init ==
    /\ mgr = MgrInit
    /\ timers = {}
    /\ socks = [s \in SockIds |-> FreeSock]
    /\ conn = ConnInitialState
    /\ chats = ChatsInitialState
    /\ messages = MessagesInitialState
    /\ app = "init"
    /\ server = [wss |-> FALSE, messageIntervalId |-> FALSE, intervals |-> 0,
               restarts |-> 0]
    /\ db = DbInit
    /\ nextMsgId = 1
    /\ clock = 1
    /\ calls = <<>>
    /\ requests = {}
    /\ last = [op |-> "init", att |-> 0]
    /\ applied = [m \in MsgIds |-> 0]

View == <<chats, messages>>
Srv == <<app, server, db, nextMsgId>>

lastCall == IF calls = <<>> THEN "none" ELSE calls[Len(calls)]

\* history: the handler op ran last, att being what it found in reconnectAttempt
Note(op, att) == last' = [op |-> op, att |-> att]

(***************************************************************************)
(* API calls on the manager (App: connect on mount, disconnect on unmount) *)
(***************************************************************************)
ApiConnect ==
    /\ Len(calls) < MaxCalls
    /\ CanOpenSock(socks)
    /\ Commit(connect(World))
    /\ calls' = Append(calls, "connect")
    /\ Note("connect", 0)
    /\ UNCHANGED <<View, Srv, clock, requests, applied>>

ApiDisconnect ==
    /\ Len(calls) < MaxCalls
    /\ Commit(disconnect(World))
    /\ calls' = Append(calls, "disconnect")
    /\ Note("disconnect", 0)
    /\ UNCHANGED <<View, Srv, clock, requests, applied>>

(***************************************************************************)
(* Socket events of the renderer.                                          *)
(***************************************************************************)
\* the handshake succeeds: readyState OPEN, onopen runs
WsOpen(s) ==
    /\ socks[s].rs = "CONNECTING"
    /\ socks[s].srv # "none"
    /\ CanSetTimer(timers)
    /\ Commit(onopen([World EXCEPT !.socks[s].rs = "OPEN"], clock))
    /\ Note("onopen", mgr.reconnectAttempt)
    /\ UNCHANGED <<View, Srv, clock, calls, requests, applied>>

\* the error event and then the close event of a socket that never opened
FailEvents(w, s) ==
    onclose(onerror([w EXCEPT !.socks[s].rs = "CLOSED",
                              !.socks[s].srv = "closed",
                              !.socks[s].inbox = <<>>]))

\* the close event of a socket that was open
CloseEvent(w, s) ==
    onclose([w EXCEPT !.socks[s].rs = "CLOSED", !.socks[s].srv = "closed",
                      !.socks[s].inbox = <<>>])

\* what onclose needs within the bounds
CloseRoom ==
    /\ conn.reconnectAttempt < MaxCloseCount
    /\ SchedulesTimer(World) => CanSetTimer(stopHeartbeat(World).timers)

\* nothing listens on the port: the connection attempt fails
WsFail(s) ==
    /\ socks[s].rs = "CONNECTING"
    /\ socks[s].srv = "none"
    /\ ~server.wss
    /\ CloseRoom
    /\ Commit(FailEvents(World, s))
    /\ Note("onclose", mgr.reconnectAttempt)
    /\ UNCHANGED <<View, Srv, clock, calls, requests, applied>>

\* the close event of a socket closed by close() or by the server
WsClose(s) ==
    /\ \/ socks[s].rs = "CLOSING"
       \/ socks[s].rs = "OPEN" /\ socks[s].srv = "closed"
    /\ CloseRoom
    /\ IF socks[s].failed
       THEN Commit(FailEvents(World, s))
       ELSE Commit(CloseEvent(World, s))
    /\ Note("onclose", mgr.reconnectAttempt)
    /\ UNCHANGED <<View, Srv, clock, calls, requests, applied>>

\* handleNewMessage(data)
handleNewMessage(f) ==
    /\ chats' = incrementChatUnread(chats, f.chatId, clock)
    /\ messages' = addMessage(messages,
                       [id |-> f.messageId, chatId |-> f.chatId, ts |-> f.ts])
    /\ applied' = [applied EXCEPT ![f.messageId] = @ + 1]
    /\ UNCHANGED <<mgr, timers, conn>>

handleMessage_ErrorOnUnknown(f) ==
    IF f.type = "NEW_MESSAGE" THEN handleNewMessage(f)
    ELSE IF f.type = "PONG"
    THEN LET w == handlePong(World, clock) IN
         /\ mgr' = w.mgr
         /\ timers' = w.timers
         /\ conn' = w.conn
         /\ UNCHANGED <<chats, messages, applied>>
    ELSE /\ conn' = setConnectionError(conn, ErrSocket)
         /\ UNCHANGED <<mgr, timers, chats, messages, applied>>

\* handleMessage(message), after the pop of the frame from the socket
handleMessage(f) ==
    IF f.type = "NEW_MESSAGE" THEN handleNewMessage(f)
    ELSE IF f.type = "PONG"
    THEN LET w == handlePong(World, clock) IN
         /\ mgr' = w.mgr
         /\ timers' = w.timers
         /\ conn' = w.conn
         /\ UNCHANGED <<chats, messages, applied>>
    ELSE UNCHANGED <<mgr, timers, conn, chats, messages, applied>>

\* ws.onmessage: JSON.parse throws on a malformed frame, and the handler ends
WsMessage(s) ==
    /\ socks[s].rs = "OPEN"
    /\ socks[s].inbox # <<>>
    /\ socks' = [socks EXCEPT ![s].inbox = Tail(@)]
    /\ IF Head(socks[s].inbox).type = "MALFORMED"
       THEN UNCHANGED <<mgr, timers, conn, chats, messages, applied>>
       ELSE handleMessage(Head(socks[s].inbox))
    /\ Note(Head(socks[s].inbox).type, 0)
    /\ UNCHANGED <<Srv, clock, calls, requests>>

(***************************************************************************)
(* Timer callbacks of the renderer.                                        *)
(***************************************************************************)
\* HEARTBEAT_TIMEOUT < HEARTBEAT_INTERVAL: the timeout an interval callback
\* set has fired or was cleared before the same interval fires again
IntervalDue(t) ==
    /\ HEARTBEAT_TIMEOUT < HEARTBEAT_INTERVAL
    /\ \A u \in timers : u.kind = "hbTimeout" => u.parent # t.id

\* the PING frame goes out on the manager's socket
SendsPing == mgr.ws # Null /\ socks[mgr.ws].rs = "OPEN"

\* the setInterval callback of startHeartbeat; the server has no handler for
\* the 'message' event, so the PING frame changes nothing there
HeartbeatTick(t) ==
    /\ t \in timers
    /\ t.kind = "hbInterval"
    /\ IntervalDue(t)
    /\ SendsPing
    /\ CanSetTimer(timers)
    /\ LET u == NewTimer(timers, "hbTimeout", HEARTBEAT_TIMEOUT, t.id, 0) IN
       /\ timers' = timers \cup {u}
       /\ mgr' = [mgr EXCEPT !.heartbeatTimeout = u.id]
    /\ Note("ping", 0)
    /\ UNCHANGED <<socks, conn, View, Srv, clock, calls, requests, applied>>

HeartbeatTimeoutFire_Backoff(t) ==
    /\ t \in timers
    /\ t.kind = "hbTimeout"
    /\ CanOpenSock(socks)
    /\ CanSetTimer(timers \ {t})
    /\ Commit(scheduleReconnect(disconnect(clearTimer(World, t.id))))
    /\ Note("hbTimeout", 0)
    /\ UNCHANGED <<View, Srv, clock, calls, requests, applied>>

\* the setTimeout callback of the heartbeat: disconnect(); connect()
HeartbeatTimeoutFire(t) ==
    /\ t \in timers
    /\ t.kind = "hbTimeout"
    /\ CanOpenSock(socks)
    /\ Commit(connect(disconnect(clearTimer(World, t.id))))
    /\ Note("hbTimeout", 0)
    /\ UNCHANGED <<View, Srv, clock, calls, requests, applied>>

\* the setTimeout callback of scheduleReconnect
ReconnectFire(t) ==
    /\ t \in timers
    /\ t.kind = "reconnect"
    /\ CanOpenSock(socks)
    /\ mgr.reconnectAttempt < MaxAttemptCount
    /\ Commit(connect([clearTimer(World, t.id)
                         EXCEPT !.mgr.reconnectAttempt = @ + 1]))
    /\ Note("reconnect", 0)
    /\ UNCHANGED <<View, Srv, clock, calls, requests, applied>>

(***************************************************************************)
(* The WebSocket server of the main process.                               *)
(***************************************************************************)
\* startWebSocketServer(): new WebSocket.Server, then startMessageBroadcast(),
\* which sets an interval and overwrites messageIntervalId
startWebSocketServer(sv) ==
    [sv EXCEPT !.wss = TRUE, !.messageIntervalId = TRUE, !.intervals = @ + 1]

\* stopWebSocketServer(), the server's module state: clearInterval, wss = null
stopWebSocketServer(sv) ==
    [sv EXCEPT !.wss = FALSE, !.messageIntervalId = FALSE,
               !.intervals = IF sv.messageIntervalId THEN @ - 1 ELSE @]

\* stopWebSocketServer(), the sockets: client.close() for every client
closeClients(sv, ss) ==
    [s \in SockIds |->
        IF sv.wss /\ SrvOpen(ss, s)
        THEN [ss[s] EXCEPT !.srv = "closed"]
        ELSE ss[s]]

\* app.on('ready'): initializeDatabase(), startWebSocketServer(), createWindow()
AppReady ==
    /\ app = "init"
    /\ app' = "ready"
    /\ server' = startWebSocketServer(server)
    /\ Note("ready", 0)
    /\ UNCHANGED <<mgr, timers, socks, conn, View, db, nextMsgId, clock,
                   calls, requests, applied>>

\* app.on('window-all-closed'): stopWebSocketServer()
WindowAllClosed ==
    /\ app = "ready"
    /\ app' = "closed"
    /\ server' = stopWebSocketServer(server)
    /\ socks' = closeClients(server, socks)
    /\ Note("closed", 0)
    /\ UNCHANGED <<mgr, timers, conn, View, db, nextMsgId, clock, calls, requests,
                   applied>>

\* wss.on('connection'): ws.isAlive = true, the liveness interval is set
ServerAccept(s) ==
    /\ server.wss
    /\ socks[s].rs = "CONNECTING"
    /\ socks[s].srv = "none"
    /\ socks' = [socks EXCEPT ![s].srv = "alive"]
    /\ Note("connection", 0)
    /\ UNCHANGED <<mgr, timers, conn, View, Srv, clock, calls, requests, applied>>

SrvLivenessTick_TerminateAtOnce(s) ==
    /\ SrvOpen(socks, s)
    /\ socks' = [socks EXCEPT ![s].srv = "closed"]
    /\ Note("liveness", 0)
    /\ UNCHANGED <<mgr, timers, conn, View, Srv, clock, calls, requests, applied>>

\* the liveness interval of a client: terminate it when isAlive is false,
\* else clear isAlive and ping
SrvLivenessTick(s) ==
    /\ SrvOpen(socks, s)
    /\ socks' = [socks EXCEPT
                   ![s].srv = IF @ = "probing" THEN "closed" ELSE "probing"]
    /\ Note("liveness", 0)
    /\ UNCHANGED <<mgr, timers, conn, View, Srv, clock, calls, requests, applied>>

\* ws.on('pong'): the browser answers a protocol-level ping by itself
SrvPong(s) ==
    /\ socks[s].srv = "probing"
    /\ Receiving(socks, s)
    /\ socks' = [socks EXCEPT ![s].srv = "alive"]
    /\ Note("pong", 0)
    /\ UNCHANGED <<mgr, timers, conn, View, Srv, clock, calls, requests, applied>>

\* module.exports of the db module: what require('./db') gives the server
DbExports ==
    {"initializeDatabase", "getChats", "getMessages", "searchMessages",
     "markChatAsRead", "insertMessage", "closeDatabase"}

BroadcastTick_StopOnError(chatId) ==
    /\ server.intervals > 0
    /\ nextMsgId <= MaxMsgs
    /\ InboxRoom(socks)
    /\ IF \/ "prepare" \notin DbExports
          \/ insertMessageThrows(db, chatId, nextMsgId)
       THEN /\ server' = [server EXCEPT !.intervals = 0]
            /\ UNCHANGED <<db, nextMsgId, socks>>
       ELSE /\ db' = insertMessage(db, chatId, nextMsgId, clock, TRUE)
            /\ nextMsgId' = nextMsgId + 1
            /\ socks' = broadcastToClients(socks,
                           Frame("NEW_MESSAGE", chatId, nextMsgId, clock), {})
            /\ UNCHANGED server
    /\ Note("tick", 0)
    /\ UNCHANGED <<mgr, timers, conn, View, app, clock, calls, requests, applied>>

BroadcastTick_BroadcastsOnEmpty(chatId) ==
    /\ server.intervals > 0
    /\ nextMsgId <= MaxMsgs
    /\ InboxRoom(socks)
    /\ IF db.chats = <<>>
       THEN /\ nextMsgId' = nextMsgId + 1
            /\ socks' = broadcastToClients(socks,
                           Frame("NEW_MESSAGE", chatId, nextMsgId, clock), {})
            /\ UNCHANGED db
       ELSE UNCHANGED <<db, nextMsgId, socks>>
    /\ Note("tick", 0)
    /\ UNCHANGED <<mgr, timers, conn, View, app, server, clock, calls, requests, applied>>

\* the setInterval callback of startMessageBroadcast: db.prepare(...) is its
\* first statement, and db is the exports object of the db module; a
\* TypeError there, or an error of the store, is caught and logged, and the
\* tick ends
BroadcastTick(chatId) ==
    /\ server.intervals > 0
    /\ nextMsgId <= MaxMsgs
    /\ InboxRoom(socks)
    /\ IF \/ "prepare" \notin DbExports
          \/ db.chats = <<>>
          \/ insertMessageThrows(db, chatId, nextMsgId)
       THEN UNCHANGED <<db, nextMsgId, socks>>
       ELSE /\ db' = insertMessage(db, chatId, nextMsgId, clock, TRUE)
            /\ nextMsgId' = nextMsgId + 1
            /\ socks' = IF server.wss
                        THEN broadcastToClients(socks,
                                Frame("NEW_MESSAGE", chatId, nextMsgId, clock),
                                {})
                        ELSE socks
    /\ Note("tick", 0)
    /\ UNCHANGED <<mgr, timers, conn, View, app, server, clock, calls, requests, applied>>

\* broadcastToClients(event) called with a NEW_MESSAGE event for the chat;
\* the function returns at once when wss is null
Broadcast(chatId, failing) ==
    /\ app = "ready"
    /\ nextMsgId <= MaxMsgs
    /\ InboxRoom(socks)
    /\ nextMsgId' = nextMsgId + 1
    /\ socks' = IF server.wss
                THEN broadcastToClients(socks,
                        Frame("NEW_MESSAGE", chatId, nextMsgId, clock), failing)
                ELSE socks
    /\ Note("broadcast", 0)
    /\ UNCHANGED <<mgr, timers, conn, View, app, server, db, clock, calls, requests,
                   applied>>

\* a frame that the peer on ws://localhost:9000 sends on an accepted
\* connection; the server of this repository sends NEW_MESSAGE frames only
PeerSend(s, type) ==
    /\ socks[s].srv # "none"
    /\ Receiving(socks, s)
    /\ Len(socks[s].inbox) < MaxInbox
    /\ socks' = [socks EXCEPT ![s].inbox = Append(@, Frame(type, "null", 0, 0))]
    /\ Note("peer", 0)
    /\ UNCHANGED <<mgr, timers, conn, View, Srv, clock, calls, requests, applied>>

\* time passes
Tick ==
    /\ clock < MaxClock
    /\ clock' = clock + 1
    /\ UNCHANGED <<mgr, timers, socks, conn, View, Srv, calls, requests, last, applied>>

(***************************************************************************)
(* The connection lifecycle: the manager, its sockets and timers, and the  *)
(* server's start and stop.  Broadcasts are left to SpecSync: a            *)
(* NEW_MESSAGE frame changes the chats and messages slices only.           *)
(***************************************************************************)
Next ==
    \/ ApiConnect
    \/ ApiDisconnect
    \/ \E s \in SockIds : WsOpen(s)
    \/ \E s \in SockIds : WsFail(s)
    \/ \E s \in SockIds : WsClose(s)
    \/ \E s \in SockIds : WsMessage(s)
    \/ \E t \in timers : HeartbeatTick(t)
    \/ \E t \in timers : HeartbeatTimeoutFire(t)
    \/ \E t \in timers : ReconnectFire(t)
    \/ AppReady
    \/ WindowAllClosed
    \/ \E s \in SockIds : ServerAccept(s)
    \/ \E s \in SockIds, ty \in PeerFrameTypes : PeerSend(s, ty)
    \/ Tick

Spec == Init /\ [][Next]_vars

(***************************************************************************)
(* The renderer's chat list (ChatList).  The preload script exposes the    *)
(* IPC bridge as window.api; the thunks call window.electron.ipcRenderer,  *)
(* which is undefined in the renderer, so the payload creator throws       *)
(* before any request leaves and the thunk is rejected.                    *)
(***************************************************************************)
ErrBridge == "Cannot read properties of undefined (reading 'ipcRenderer')"

\* dispatch(fetchChats(offset)): on mount with offset 0, on 'Load more chats'
\* (shown while hasMore) with offset chats.length; pending and rejected are
\* dispatched before any other callback runs
FetchChats(offset) ==
    /\ offset = 0 \/ (chats.hasMore /\ offset = Len(chats.items))
    /\ chats' = fetchRejected(fetchPending(chats), ErrBridge)
    /\ Note("fetchChats", offset)
    /\ UNCHANGED <<mgr, timers, socks, conn, messages, Srv, clock, calls, requests,
                   applied>>

(***************************************************************************)
(* Event application: the views, the store and the broadcaster, over       *)
(* connections that stay up (no timer of the manager fires, nothing is     *)
(* closed).  The broadcast tick never reaches its call of                  *)
(* broadcastToClients; Broadcast is that function called with an event.    *)
(***************************************************************************)
NextSync ==
    \/ ApiConnect
    \/ AppReady
    \/ \E s \in SockIds : ServerAccept(s)
    \/ \E s \in SockIds : WsOpen(s)
    \/ \E c \in ChatIds : BroadcastTick(c)
    \/ \E c \in ChatIds, failing \in SUBSET SockIds : Broadcast(c, failing)
    \/ \E s \in SockIds : WsMessage(s)
    \/ \E s \in SockIds : SrvLivenessTick(s)
    \/ \E s \in SockIds : SrvPong(s)
    \/ \E offset \in {0, Len(chats.items)} : FetchChats(offset)
    \/ Tick

\* the initial state with any database file
InitFiles ==
    /\ mgr = MgrInit
    /\ timers = {}
    /\ socks = [s \in SockIds |-> FreeSock]
    /\ conn = ConnInitialState
    /\ chats = ChatsInitialState
    /\ messages = MessagesInitialState
    /\ app = "init"
    /\ server = [wss |-> FALSE, messageIntervalId |-> FALSE, intervals |-> 0,
               restarts |-> 0]
    /\ db \in DbFiles
    /\ nextMsgId = 1
    /\ clock = 1
    /\ calls = <<>>
    /\ requests = {}
    /\ last = [op |-> "init", att |-> 0]
    /\ applied = [m \in MsgIds |-> 0]

SpecSync == InitFiles /\ [][NextSync]_vars

(***************************************************************************)
(* Properties of the connection lifecycle.                                 *)
(***************************************************************************)
\* the step is a call of connect() from outside the manager
ConnectCalled == calls' = Append(calls, "connect")

\* the step creates a WebSocket object (a transport open)
OpensTransport ==
    \E s \in SockIds : socks[s].rs = "FREE" /\ socks'[s].rs = "CONNECTING"

\* the reconnect timers the step sets
NewReconnectTimers == {t \in timers' \ timers : t.kind = "reconnect"}

\* the give-up state: the persistent error of scheduleReconnect's else branch
GivenUp == conn.status = "error" /\ conn.error = ErrMax

\* C1: once disconnect() was called (and connect() was not called after it)
\* the manager has no pending timer: no heartbeat interval, no heartbeat
\* timeout and no reconnect delay is left to fire.
C1_DisconnectLeavesNoTimers == lastCall = "disconnect" => timers = {}

\* C2: in the give-up state the manager opens no transport unless connect()
\* is called: every step taken from the give-up state that is not a call of
\* connect() creates no WebSocket object.
C2_NoOpenAfterGiveUp == [][GivenUp /\ ~ConnectCalled => ~OpensTransport]_vars

C4_ConnectNoOpWhenActive ==
    [][ConnectCalled /\ conn.status \in {"connecting", "connected"}
          => UNCHANGED <<mgr, timers, socks, conn>>]_vars

\* C7: when a heartbeat timeout fires while the state is connected, the
\* manager's socket is closed, a new WebSocket object is created in the same
\* step, the state becomes connecting, and no reconnect timer is set.
C7_HeartbeatTimeoutReconnectsAtOnce ==
    [][\A t \in timers :
          HeartbeatTimeoutFire(t) /\ conn.status = "connected"
          => /\ conn'.status = "connecting"
             /\ mgr.ws # Null => socks'[mgr.ws].rs \notin {"OPEN", "CONNECTING"}
             /\ OpensTransport
             /\ mgr'.ws # Null
             /\ socks[mgr'.ws].rs = "FREE"
             /\ socks'[mgr'.ws].rs = "CONNECTING"
             /\ NewReconnectTimers = {}]_vars

\* C7's case: the timeout has fired on an open connection, which is closing
\* while the next one is being opened
C7_Witness ==
    /\ last.op = "hbTimeout"
    /\ conn.status = "connecting"
    /\ mgr.ws # Null
    /\ socks[mgr.ws].rs = "CONNECTING"
    /\ \E s \in SockIds : socks[s].rs = "CLOSING" /\ ~socks[s].failed
    /\ \A t \in timers : t.kind # "reconnect"

\* the connection is healthy: the server runs, and the manager's socket is
\* open at both ends
Healthy ==
    /\ server.wss
    /\ mgr.ws # Null
    /\ socks[mgr.ws].rs = "OPEN"
    /\ SrvOpen(socks, mgr.ws)

\* C8: the server answers every PING with a PONG, so that no heartbeat
\* timeout fires while the connection is healthy.
C8_NoTimeoutWhileHealthy ==
    [][\A t \in timers : Healthy => ~HeartbeatTimeoutFire(t)]_vars

\* C9: the give-up state is left only by a call of connect(), and a call of
\* connect() in the give-up state sets reconnectAttempt to 0.
C9_ConnectLeavesGiveUp ==
    [][GivenUp => /\ ~GivenUp' => ConnectCalled
                  /\ ConnectCalled => mgr'.reconnectAttempt = 0]_vars

\* C10: every open event of a socket, and so every step into the connected
\* state, sets reconnectAttempt to 0 in the manager and in the connection
\* slice.
C10_OpenResetsAttempt ==
    [][(\/ \E s \in SockIds : WsOpen(s)
        \/ conn.status # "connected" /\ conn'.status = "connected")
          => /\ conn'.status = "connected"
             /\ mgr'.reconnectAttempt = 0
             /\ conn'.reconnectAttempt = 0]_vars

\* C10's case: a socket has opened after failed attempts
C10_Witness ==
    /\ last.op = "onopen"
    /\ last.att > 0
    /\ conn.status = "connected"
    /\ mgr.reconnectAttempt = 0
    /\ conn.reconnectAttempt = 0

(***************************************************************************)
(* Properties of event application.                                        *)
(***************************************************************************)
\* C5: a manager applies each NEW_MESSAGE broadcast at most once:
\* handleNewMessage never runs twice for the same broadcast.
C5_AppliedAtMostOnce == \A m \in MsgIds : applied[m] <= 1

\* the unread counter the chats slice holds for a chat (none held: 0)
LocalUnread(c, chatId) ==
    IF FindChat(c.items, chatId) = 0 THEN 0
    ELSE c.items[FindChat(c.items, chatId)].unreadCount

\* the step hands a NEW_MESSAGE frame for the chat to onmessage
AppliesNewMessage(chatId) ==
    \E s \in SockIds :
        /\ socks[s].rs = "OPEN"
        /\ socks[s].inbox # <<>>
        /\ Head(socks[s].inbox).type = "NEW_MESSAGE"
        /\ Head(socks[s].inbox).chatId = chatId
        /\ WsMessage(s)

\* C6: each NEW_MESSAGE event applied for a chat raises the local unread
\* counter of that chat by one, whether or not the chat is selected and
\* whether or not it is in the loaded page of chats.
C6_EachEventCountsOnce ==
    [][\A x \in ChatIds :
          AppliesNewMessage(x)
          => LocalUnread(chats', x) = LocalUnread(chats, x) + 1]_vars

(***************************************************************************)
(* Properties of the manager's timers.                                     *)
(***************************************************************************)
\* the pending timers of a kind
TimersOf(kind) == {t \in timers : t.kind = kind}

\* connect() was called once, and nothing else, from outside the manager
ConnectedOnce == calls = <<"connect">>

\* C11: the manager never has duplicate timers: after a single call of
\* connect(), at most one heartbeat interval, at most one heartbeat timeout
\* and at most one reconnect timer is pending.
C11_NoDuplicateTimers ==
    ConnectedOnce =>
        \A kind \in {"hbInterval", "hbTimeout", "reconnect"} :
            Cardinality(TimersOf(kind)) <= 1

\* C12: a reconnect timer does not fire while the connection state is
\* connected: after a single call of connect(), an open event cancels the
\* pending reconnect timer.
C12_NoReconnectFireWhileConnected ==
    [][\A t \in timers :
          ConnectedOnce /\ ReconnectFire(t) => conn.status # "connected"]_vars

\* C13: disconnect() is idempotent: in every reachable state, calling it
\* twice in a row leaves the manager, its timers and sockets and the
\* connection slice as calling it once does.
C13_DisconnectIdempotent == disconnect(disconnect(World)) = disconnect(World)

\* C13's case: an open connection with a heartbeat timeout and a reconnect
\* timer pending, where the first disconnect() clears timers and closes the
\* socket
C13_Witness ==
    /\ mgr.ws # Null
    /\ socks[mgr.ws].rs = "OPEN"
    /\ mgr.heartbeatInterval # Null
    /\ mgr.heartbeatTimeout # Null
    /\ mgr.reconnectTimeout # Null
    /\ disconnect(World).timers # timers
    /\ disconnect(World).socks[mgr.ws].rs = "CLOSING"
    /\ disconnect(disconnect(World)) = disconnect(World)

\* a PONG frame is taken from socket s and handled
PongStep(s) == WsMessage(s) /\ Head(socks[s].inbox).type = "PONG"

\* C14: a PONG received on the manager's socket while a heartbeat timeout is
\* pending cancels the pending heartbeat timeout and sets lastHeartbeat; the
\* connection stays connected, with no heartbeat timeout left to start a
\* disconnect/reconnect cycle.
C14_PongCancelsTimeout ==
    [][\A s \in SockIds :
          /\ ConnectedOnce
          /\ PongStep(s)
          /\ s = mgr.ws
          /\ conn.status = "connected"
          /\ TimersOf("hbTimeout") # {}
          => /\ TimersOf("hbTimeout")' = {}
             /\ conn'.lastHeartbeat = clock
             /\ conn'.status = "connected"]_vars

(***************************************************************************)
(* The Redux store on its own: the reducers of the chats and messages      *)
(* slices applied to dispatched actions whose payloads are drawn from the  *)
(* pages getChats returns and from the frames the broadcaster builds.      *)
(***************************************************************************)
\* limit: 50 of the fetchChats thunk
ChatsPageLimit == 50

\* a database file with two chats, as it is and after one insertMessage
DbStates ==
    {DbSeeded} \cup {insertMessage(DbSeeded, c, 1, ts, TRUE) :
                      c \in ChatIds, ts \in 1..MaxClock}

\* fetchChats.pending, then fetchChats.fulfilled with the first page of the
\* table, whose timestamps are not in the future
DispatchFetchChats(d) ==
    /\ \A i \in 1..Len(d.chats) : d.chats[i].lastMessageAt <= clock
    /\ chats' = fetchFulfilled(fetchPending(chats),
                               getChats(d, 0, ChatsPageLimit))
    /\ Note("fetchChats.fulfilled", 0)
    /\ UNCHANGED <<mgr, timers, socks, conn, messages, Srv, clock, calls, requests,
                   applied>>

\* handleSelectChat(chatId) of ChatList: markChatRead, clearMessages,
\* setSelectedChat; the fetchMessages thunk that follows is rejected
DispatchSelectChat(chatId) ==
    /\ chats' = markChatRead(chats, chatId)
    /\ messages' = fetchRejected(
                      fetchPending(setSelectedChat(clearMessages(messages),
                                                   chatId)),
                      ErrBridge)
    /\ Note("selectChat", 0)
    /\ UNCHANGED <<mgr, timers, socks, conn, Srv, clock, calls, requests, applied>>

\* handleNewMessage(data) for a frame of the broadcaster
DispatchNewMessage(chatId) ==
    /\ nextMsgId <= MaxMsgs
    /\ handleNewMessage(Frame("NEW_MESSAGE", chatId, nextMsgId, clock))
    /\ nextMsgId' = nextMsgId + 1
    /\ Note("NEW_MESSAGE", 0)
    /\ UNCHANGED <<socks, app, server, db, clock, calls, requests>>

NextSlices ==
    \/ DispatchFetchChats(db)
    \/ \E c \in ChatIds : DispatchSelectChat(c)
    \/ \E c \in ChatIds : DispatchNewMessage(c)
    \/ Tick

\* the initial state with a database file that holds chats
InitSlices ==
    /\ mgr = MgrInit
    /\ timers = {}
    /\ socks = [s \in SockIds |-> FreeSock]
    /\ conn = ConnInitialState
    /\ chats = ChatsInitialState
    /\ messages = MessagesInitialState
    /\ app = "init"
    /\ server = [wss |-> FALSE, messageIntervalId |-> FALSE, intervals |-> 0,
               restarts |-> 0]
    /\ db \in DbStates
    /\ nextMsgId = 1
    /\ clock = 1
    /\ calls = <<>>
    /\ requests = {}
    /\ last = [op |-> "init", att |-> 0]
    /\ applied = [m \in MsgIds |-> 0]

SpecSlices == InitSlices /\ [][NextSlices]_vars

\* every chat of the local list was last written before now
OlderThanNow ==
    \A i \in 1..Len(chats.items) : chats.items[i].lastMessageAt < clock

\* C15: applying a NEW_MESSAGE event for a chat of the local chat list, all
\* of whose chats are older than the event, moves that chat to the front of
\* the list: after the event it is the first element of chats.items.
C15_NewMessageMovesChatToFront ==
    [][\A x \in ChatIds :
          /\ DispatchNewMessage(x)
          /\ FindChat(chats.items, x) # 0
          /\ OlderThanNow
          => chats'.items[1].id = x]_vars

\* C16: a NEW_MESSAGE event appends its message to the message view only if
\* its chatId is the selected chat id; otherwise the items, selectedChatId
\* and every other field of the messages slice are unchanged.
C16_AppendOnlyToSelected ==
    [][\A x \in ChatIds :
          DispatchNewMessage(x)
          => messages' =
                IF messages.selectedChatId = x
                THEN [messages EXCEPT
                         !.items = Append(@, [id |-> nextMsgId, chatId |-> x,
                                              ts |-> clock])]
                ELSE messages]_vars

\* C16's case: with a chat selected, two events were applied, one for the
\* selected chat, which is in the view, and one for the other chat, which is
\* not
C16_Witness ==
    /\ last.op = "NEW_MESSAGE"
    /\ messages.selectedChatId \in ChatIds
    /\ nextMsgId = 3
    /\ applied[1] = 1 /\ applied[2] = 1
    /\ Len(messages.items) = 1
    /\ messages.items[1].chatId = messages.selectedChatId

C18_GetStatusAgreesWithStore == ConnectedOnce => getStatus(World) = conn.status

(***************************************************************************)
(* Properties of the broadcaster.                                          *)
(***************************************************************************)
\* the sockets a broadcast of the server reaches
Reached(ss) ==
    {s \in SockIds : server.wss /\ SrvOpen(ss, s) /\ Receiving(ss, s)}

\* C19: on every broadcaster tick against a non-empty chats table exactly
\* one message is persisted by insertMessage, with the unread increment, for
\* a chat of the table, and a NEW_MESSAGE frame with the same chatId,
\* messageId and ts is pushed to every open socket.
C19_TickPersistsAndPushes ==
    [][(\E c \in ChatIds : BroadcastTick(c)) /\ db.chats # <<>>
       => \E x \in ChatIds :
             /\ ~insertMessageThrows(db, x, nextMsgId)
             /\ db' = insertMessage(db, x, nextMsgId, clock, TRUE)
             /\ \A s \in Reached(socks) :
                   socks'[s].inbox =
                      Append(socks[s].inbox,
                             Frame("NEW_MESSAGE", x, nextMsgId, clock))]_vars

\* C20: in a broadcast, every open socket whose send does not fail gets the
\* frame, whichever sockets fail and whichever were removed before, and the
\* broadcast interval keeps running.
C20_FailureDoesNotStopBroadcast ==
    [][\A c \in ChatIds, failing \in SUBSET SockIds :
          Broadcast(c, failing)
          => /\ \A s \in Reached(socks) \ failing :
                   socks'[s].inbox =
                      Append(socks[s].inbox,
                             Frame("NEW_MESSAGE", c, nextMsgId, clock))
             /\ server' = server]_vars

\* C20's case: after a broadcast to two open sockets, the send to one failed
\* and the other holds the frame
C20_Witness ==
    /\ last.op = "broadcast"
    /\ \E s \in Reached(socks), r \in Reached(socks) :
          /\ socks[s].inbox = <<>>
          /\ socks[r].inbox # <<>>
          /\ Head(socks[r].inbox).type = "NEW_MESSAGE"

\* the tick's access to the store fails: db.prepare is not a function, or the
\* INSERT of insertMessage throws
TickFails(chatId) ==
    \/ "prepare" \notin DbExports
    \/ insertMessageThrows(db, chatId, nextMsgId)

\* C21: when the store fails during a broadcaster tick, no frame is pushed
\* in that tick, nothing is persisted or kept for a later tick, and the
\* broadcast interval stays as it was, so that the next tick runs.
C21_FailedTickPushesNothing ==
    [][\A c \in ChatIds :
          BroadcastTick(c) /\ db.chats # <<>> /\ TickFails(c)
          => /\ socks' = socks
             /\ db' = db
             /\ nextMsgId' = nextMsgId
             /\ server' = server
             /\ server'.intervals > 0]_vars

\* C21's case: a tick ran against a table with chats while a socket was
\* open, and the socket holds no frame
C21_Witness ==
    /\ last.op = "tick"
    /\ db.chats # <<>>
    /\ Reached(socks) # {}
    /\ \A s \in Reached(socks) : socks[s].inbox = <<>>
    /\ nextMsgId = 1

\* C22: a tick that finds the chats table empty inserts nothing and sends
\* nothing, and the broadcast interval stays armed.
C22_EmptyTickSkips ==
    [][(\E c \in ChatIds : BroadcastTick(c)) /\ db.chats = <<>>
       => /\ db' = db
          /\ \A s \in SockIds : socks'[s].inbox = socks[s].inbox
          /\ server'.intervals = server.intervals
          /\ server'.intervals > 0]_vars

\* C22's case: a tick ran against the empty tables of a new file while a
\* socket was open
C22_Witness ==
    /\ last.op = "tick"
    /\ db = DbInit
    /\ server.intervals > 0
    /\ Reached(socks) # {}

(***************************************************************************)
(* The store on its own: the functions the db module exports, called with  *)
(* drawn arguments on a database file.                                     *)
(***************************************************************************)
\* the largest offset and limit a read is called with
MaxPage == 2

\* a chat id that is in no table
NoChat == "c0"

\* insertMessage(chatId, messageId, ts, sender, body, increment_unread)
StoreInsert(chatId, messageId, ts, increment_unread, fault) ==
    LET r == insertMessageRun(db, chatId, messageId, ts, increment_unread,
                              fault) IN
    /\ db' = r.db
    /\ Note(IF r.threw THEN "insertMessage.error" ELSE "insertMessage.ok",
            messageId)
    /\ UNCHANGED <<mgr, timers, socks, conn, View, app, server, nextMsgId,
                   clock, calls, requests, applied>>

\* markChatAsRead(chatId)
StoreMarkRead(chatId) ==
    /\ db' = markChatAsRead(db, chatId)
    /\ Note("markChatAsRead", 0)
    /\ UNCHANGED <<mgr, timers, socks, conn, View, app, server, nextMsgId,
                   clock, calls, requests, applied>>

\* getChats(offset, limit) and getMessages(chatId, offset, limit): SELECTs
StoreRead(op, offset) ==
    /\ Note(op, offset)
    /\ UNCHANGED <<mgr, timers, socks, conn, View, Srv, clock, calls, requests,
                   applied>>

NextStore ==
    \/ \E c \in ChatIds \cup {NoChat}, m \in MsgIds, ts \in 0..MaxClock,
          inc \in BOOLEAN, fault \in StoreFaults :
          StoreInsert(c, m, ts, inc, fault)
    \/ \E c \in ChatIds \cup {NoChat} : StoreMarkRead(c)
    \/ \E op \in {"getChats", "getMessages"}, offset \in 0..MaxPage :
          StoreRead(op, offset)

SpecStore == InitFiles /\ [][NextStore]_vars

(***************************************************************************)
(* Properties of the store.                                                *)
(***************************************************************************)
\* the arguments insertMessage is called with
InsertArgs ==
    (ChatIds \cup {NoChat}) \X MsgIds \X (0..MaxClock) \X BOOLEAN \X StoreFaults

\* the row of a chat of the table
ChatRow(d, chatId) ==
    d.chats[CHOOSE i \in 1..Len(d.chats) : d.chats[i].id = chatId]

HasChat(d, chatId) == \E i \in 1..Len(d.chats) : d.chats[i].id = chatId

HasMessage(d, messageId) ==
    \E i \in 1..Len(d.messages) : d.messages[i].id = messageId

\* the timestamps of a chat's messages
TsOf(d, chatId) ==
    {d.messages[i].ts : i \in {j \in 1..Len(d.messages) :
                                  d.messages[j].chatId = chatId}}

\* C23: insertMessage is atomic: a call that returns has inserted the row
\* and set the chat's lastMessageAt (and raised unreadCount when
\* increment_unread is set); a call that throws has changed neither the
\* messages table nor the chats table.
C23_InsertMessageAtomic ==
    [][\A a \in InsertArgs :
          StoreInsert(a[1], a[2], a[3], a[4], a[5])
          => IF last'.op = "insertMessage.ok"
             THEN /\ HasMessage(db', a[2])
                  /\ ChatRow(db', a[1]).lastMessageAt = a[3]
                  /\ ChatRow(db', a[1]).unreadCount =
                        ChatRow(db, a[1]).unreadCount + (IF a[4] THEN 1 ELSE 0)
             ELSE db' = db]_vars

\* C24: after every insertMessage call that returns, with timestamps in any
\* order, the chat's lastMessageAt is the greatest ts of its messages.
C24_LastMessageAtIsMaxTs ==
    [][\A a \in InsertArgs :
          StoreInsert(a[1], a[2], a[3], a[4], a[5])
          /\ last'.op = "insertMessage.ok"
          => \A t \in TsOf(db', a[1]) : t <= ChatRow(db', a[1]).lastMessageAt]_vars

\* C26: a chat's unreadCount is never negative and changes in two ways only:
\* an insertMessage call that returns with increment_unread set raises the
\* count of its chat by 1, and markChatAsRead sets the count of its chat to
\* 0; every other call, and every read, leaves every count as it was.
C26_UnreadChangesByRule ==
    [][/\ \A a \in InsertArgs :
             StoreInsert(a[1], a[2], a[3], a[4], a[5])
             => /\ Len(db'.chats) = Len(db.chats)
                /\ \A i \in 1..Len(db.chats) :
                      db'.chats[i].unreadCount =
                         db.chats[i].unreadCount +
                         (IF /\ last'.op = "insertMessage.ok"
                             /\ a[4]
                             /\ db.chats[i].id = a[1]
                          THEN 1 ELSE 0)
       /\ \A c \in ChatIds \cup {NoChat} :
             StoreMarkRead(c)
             => /\ Len(db'.chats) = Len(db.chats)
                /\ \A i \in 1..Len(db.chats) :
                      db'.chats[i].unreadCount =
                         IF db.chats[i].id = c THEN 0
                         ELSE db.chats[i].unreadCount
       /\ \A op \in {"getChats", "getMessages"}, offset \in 0..MaxPage :
             StoreRead(op, offset) => db' = db
       /\ \A i \in 1..Len(db'.chats) : db'.chats[i].unreadCount >= 0]_vars

\* C26's case: both chats got an unread message, then c1 was marked read
C26_Witness ==
    /\ last.op = "markChatAsRead"
    /\ HasChat(db, "c1") /\ HasChat(db, "c2")
    /\ HasMessage(db, 1) /\ HasMessage(db, 2)
    /\ ChatRow(db, "c1").unreadCount = 0
    /\ ChatRow(db, "c2").unreadCount = 1

\* the positions in the messages table of the messages of a chat
RowsOf(d, chatId) ==
    {i \in 1..Len(d.messages) : d.messages[i].chatId = chatId}

\* rows is the window [offset, offset + limit) of the chat's messages counted
\* from the newest, oldest first: the row at place k from the end is the
\* (offset + k)-th newest message of the chat
IsWindowFromNewest(d, chatId, offset, limit, rows) ==
    LET n == Cardinality(RowsOf(d, chatId))
        len == IF n - offset < 0 THEN 0 ELSE Min(limit, n - offset)
    IN /\ Len(rows) = len
       /\ \A k \in 1..Len(rows) :
             /\ rows[k].chatId = chatId
             /\ \E i \in RowsOf(d, chatId) : d.messages[i] = rows[k]
             /\ \A j \in 1..Len(rows) : rows[j].id = rows[k].id => j = k
             /\ k < Len(rows) => rows[k].ts <= rows[k + 1].ts
             /\ LET rank == offset + (Len(rows) - k) + 1 IN
                /\ Cardinality({i \in RowsOf(d, chatId) :
                                   d.messages[i].ts > rows[k].ts}) <= rank - 1
                /\ Cardinality({i \in RowsOf(d, chatId) :
                                   d.messages[i].ts >= rows[k].ts}) >= rank

PageLimit == 2

PageIds == <<"p1", "p2", "p3", "p4", "p5">>

\* the tables: five chats in rowid order, each with lastMessageAt 0 or 1
PageTables ==
    {[i \in 1..Len(PageIds) |->
        [id |-> PageIds[i], lastMessageAt |-> f[i], unreadCount |-> 0]] :
     f \in [1..Len(PageIds) -> {0, 1}]}

InitPages ==
    /\ mgr = MgrInit
    /\ timers = {}
    /\ socks = [s \in SockIds |-> FreeSock]
    /\ conn = ConnInitialState
    /\ chats = ChatsInitialState
    /\ messages = MessagesInitialState
    /\ app = "init"
    /\ server = [wss |-> FALSE, messageIntervalId |-> FALSE, intervals |-> 0,
               restarts |-> 0]
    /\ db \in {[chats |-> t, messages |-> <<>>] : t \in PageTables}
    /\ nextMsgId = 1
    /\ clock = 1
    /\ calls = <<>>
    /\ requests = {}
    /\ last = [op |-> "init", att |-> 0]
    /\ applied = [m \in MsgIds |-> 0]

\* getChats(k * PageLimit, PageLimit)
GetChatsPage(k) == StoreRead("getChats", k * PageLimit)

NextPages == \E k \in 0..2 : GetChatsPage(k)

SpecPages == InitPages /\ [][NextPages]_vars

\* the k-th window
Page(k) == getChats(db, k * PageLimit, PageLimit)

\* the three windows one after the other
ThreePages == Page(0).rows \o Page(1).rows \o Page(2).rows

\* C25: over an unchanged chats table, getChats calls with adjacent windows
\* partition the table: the k-th window holds min(limit, rows left) rows,
\* the windows are pairwise disjoint and together are the rows of the table
\* in one order, descending in lastMessageAt, also with shared
\* lastMessageAt; hasMore is true exactly when rows lie beyond the window.
C25_PagesPartitionTable ==
    LET n == Len(db.chats) IN
    /\ \A k \in 0..2 :
          /\ Len(Page(k).rows) =
                IF n - k * PageLimit < 0 THEN 0
                ELSE Min(PageLimit, n - k * PageLimit)
          /\ Page(k).total = n
          /\ Page(k).hasMore = (\E i \in 1..n : i > k * PageLimit + PageLimit)
    /\ \A i, j \in 1..Len(ThreePages) :
          /\ ThreePages[i].id = ThreePages[j].id => i = j
          /\ i < j => ThreePages[i].lastMessageAt >= ThreePages[j].lastMessageAt
    /\ 3 * PageLimit >= n
       => {ThreePages[i] : i \in 1..Len(ThreePages)}
             = {db.chats[i] : i \in 1..n}

\* C25's case: the third window was read on a table in which chats share
\* lastMessageAt across the page boundaries, and the first two windows have
\* more rows after them
C25_Witness ==
    /\ last = [op |-> "getChats", att |-> 2 * PageLimit]
    /\ Len(db.chats) > 2 * PageLimit
    /\ Page(0).hasMore /\ Page(1).hasMore /\ ~Page(2).hasMore
    /\ Page(0).rows[PageLimit].lastMessageAt = Page(1).rows[1].lastMessageAt
    /\ \E i \in 1..Len(db.chats) : db.chats[i].lastMessageAt = 0
    /\ \E i \in 1..Len(db.chats) : db.chats[i].lastMessageAt = 1

(***************************************************************************)
(* Opening a chat.                                                         *)
(***************************************************************************)
\* C27: when the user selects a chat, the chat is marked read in the store:
\* after handleSelectChat the chat's unreadCount in the database is 0.
C27_SelectMarksReadInStore ==
    [][\A c \in ChatIds :
          DispatchSelectChat(c) /\ HasChat(db, c)
          => ChatRow(db', c).unreadCount = 0]_vars

(***************************************************************************)
(* Properties of the server's client registry.                             *)
(***************************************************************************)
\* C28: on a liveness tick a socket whose isAlive is false is terminated and
\* its liveness interval cleared, otherwise isAlive is cleared and a ping is
\* sent; a pong sets isAlive again.  So a socket is terminated only by the
\* tick that follows a tick with no pong in between, and the liveness
\* interval of a closed socket does not fire.
C28_LivenessTick ==
    [][\A s \in SockIds :
          /\ SrvLivenessTick(s)
             => socks'[s].srv =
                   IF socks[s].srv = "probing" THEN "closed" ELSE "probing"
          /\ SrvPong(s) => socks[s].srv = "probing" /\ socks'[s].srv = "alive"
          /\ socks[s].srv # "closed" /\ socks'[s].srv = "closed"
             => socks[s].srv = "probing" /\ SrvLivenessTick(s)
          /\ socks[s].srv = "closed" => ~ENABLED SrvLivenessTick(s)]_vars

\* C28's case: the second liveness tick of a socket that sent no pong has
\* terminated it, while the client's end is still open
C28_Witness ==
    /\ last.op = "liveness"
    /\ \E s \in SockIds : socks[s].srv = "closed" /\ socks[s].rs = "OPEN"

(***************************************************************************)
(* The documented backoff sequence.                                        *)
(***************************************************************************)
\* C29: the delays of the reconnect attempts are 1 s, 2 s, 4 s and 8 s for
\* attempts 1 to 4 (reconnectAttempt 0 to 3) and 30 s for the fifth attempt
\* and every later one.
C29_FifthAttemptWaits30s ==
    [][\A t \in NewReconnectTimers :
          t.delay = IF mgr.reconnectAttempt <= 3
                    THEN Pow2(mgr.reconnectAttempt) * 1000
                    ELSE 30000]_vars

(***************************************************************************)
(* The heartbeat and the connection status.                                *)
(***************************************************************************)
\* a heartbeat timer (interval or timeout) is pending
HeartbeatPending == TimersOf("hbInterval") \cup TimersOf("hbTimeout") # {}

\* the manager's current socket is open; its onopen ran in the step that
\* opened it
CurrentOpen == mgr.ws # Null /\ socks[mgr.ws].rs = "OPEN"

\* C31: the heartbeat is active only while Connected: whenever the status is
\* not 'connected' no heartbeat interval and no heartbeat timeout is pending
\* (so no PING can be sent), and whenever the manager's current socket is
\* open, the interval behind heartbeatInterval is running
C31_HeartbeatOnlyWhileConnected ==
    ConnectedOnce =>
        /\ conn.status # "connected" => ~HeartbeatPending
        /\ CurrentOpen =>
              \E t \in TimersOf("hbInterval") : t.id = mgr.heartbeatInterval

(***************************************************************************)
(* The views and the IPC handlers of the main process: the thunks the      *)
(* components dispatch, each pending until the handler of its channel has  *)
(* answered, over a bridge that delivers the invocation.  The handlers are *)
(* reachable through window.api.invoke(channel, payload) of the preload    *)
(* script.                                                                 *)
(***************************************************************************)
\* limit: 50 of the fetchMessages and searchMessages thunks
MessagesPageLimit == 50

\* the most thunks pending at a time
MaxRequests == 2

IpcChannels ==
    {"GET_CHATS", "GET_MESSAGES", "SEARCH_MESSAGES", "MARK_CHAT_AS_READ"}

\* error.message of an error the store throws
ErrStore == "disk I/O error"

\* searchMessages(chatId, query, limit); matching holds the ids of the
\* messages whose body is LIKE %query%
searchMessages(d, chatId, matching, limit) ==
    LET Hit(m) == m.id \in matching IN
    [rows |-> Window(SortDesc(SelectSeq(MessagesOf(d, chatId), Hit)), 0,
                     limit)]

\* ipcMain.handle(channel, ...): the store function is called in a try
\* block whose catch returns the error's message
ipcHandle(channel, d, a, throws) ==
    IF throws THEN [success |-> FALSE, error |-> ErrStore]
    ELSE IF channel = "GET_CHATS"
    THEN [success |-> TRUE, data |-> getChats(d, a.offset, a.limit)]
    ELSE IF channel = "GET_MESSAGES"
    THEN [success |-> TRUE,
          data |-> getMessages(d, a.chatId, a.offset, a.limit)]
    ELSE IF channel = "SEARCH_MESSAGES"
    THEN [success |-> TRUE,
          data |-> searchMessages(d, a.chatId, a.matching, a.limit)]
    ELSE [success |-> TRUE]

\* searchMessages.fulfilled / searchMessages.rejected
searchFulfilled(m, payload) == [m EXCEPT !.items = payload.rows]

searchRejected(m, msg) == [m EXCEPT !.error = msg]

\* a pending thunk: its name and its argument
Request(thunk, chatId, offset) ==
    [thunk |-> thunk, chatId |-> chatId, offset |-> offset]

CanRequest == Cardinality(requests) < MaxRequests

\* a table with more chats than one page of fetchChats
DbLarge ==
    [chats |-> [i \in 1..(ChatsPageLimit + 1) |->
                  [id |-> "c" \o ToString(i), lastMessageAt |-> 0,
                   unreadCount |-> 0]],
     messages |-> <<>>]

\* dispatch(fetchChats(offset)): on mount with offset 0, on 'Load more
\* chats' (shown while hasMore) with offset chats.length
LoadChats(offset) ==
    /\ CanRequest
    /\ offset = 0 \/ (chats.hasMore /\ offset = Len(chats.items))
    /\ chats' = fetchPending(chats)
    /\ requests' = requests \cup {Request("fetchChats", "null", offset)}
    /\ Note("fetchChats.pending", offset)
    /\ UNCHANGED <<mgr, timers, socks, conn, messages, Srv, clock, calls,
                   applied>>

\* handleSelectChat(chatId) of ChatList, for a row of the list
SelectChat(chatId) ==
    /\ CanRequest
    /\ FindChat(chats.items, chatId) # 0
    /\ chats' = markChatRead(chats, chatId)
    /\ messages' = fetchPending(setSelectedChat(clearMessages(messages),
                                                chatId))
    /\ requests' = requests \cup {Request("fetchMessages", chatId, 0)}
    /\ Note("selectChat", 0)
    /\ UNCHANGED <<mgr, timers, socks, conn, Srv, clock, calls, applied>>

\* handleSearch of the message view: a query searches the selected chat, an
\* empty query reloads its messages
Search(empty) ==
    /\ CanRequest
    /\ messages.selectedChatId # "null"
    /\ IF empty
       THEN /\ messages' = fetchPending(messages)
            /\ requests' = requests \cup
                   {Request("fetchMessages", messages.selectedChatId, 0)}
       ELSE /\ messages' = messages
            /\ requests' = requests \cup
                   {Request("searchMessages", messages.selectedChatId, 0)}
    /\ Note("search", 0)
    /\ UNCHANGED <<mgr, timers, socks, conn, chats, Srv, clock, calls,
                   applied>>

\* the handler answers a pending thunk and the thunk settles: a response
\* without success makes the payload creator throw Error(result.error)
IpcSettle(r, matching, throws) ==
    /\ r \in requests
    /\ requests' = requests \ {r}
    /\ IF r.thunk = "fetchChats"
       THEN LET res == ipcHandle("GET_CHATS", db,
                          [offset |-> r.offset, limit |-> ChatsPageLimit],
                          throws) IN
            /\ chats' = IF res.success THEN fetchFulfilled(chats, res.data)
                        ELSE fetchRejected(chats, res.error)
            /\ UNCHANGED messages
       ELSE IF r.thunk = "fetchMessages"
       THEN LET res == ipcHandle("GET_MESSAGES", db,
                          [chatId |-> r.chatId, offset |-> r.offset,
                           limit |-> MessagesPageLimit], throws) IN
            /\ messages' = IF res.success
                           THEN fetchFulfilled(messages, res.data)
                           ELSE fetchRejected(messages, res.error)
            /\ UNCHANGED chats
       ELSE LET res == ipcHandle("SEARCH_MESSAGES", db,
                          [chatId |-> r.chatId, matching |-> matching,
                           limit |-> MessagesPageLimit], throws) IN
            /\ messages' = IF res.success
                           THEN searchFulfilled(messages, res.data)
                           ELSE searchRejected(messages, res.error)
            /\ UNCHANGED chats
    /\ Note(r.thunk \o (IF throws THEN ".rejected" ELSE ".fulfilled"),
            r.offset)
    /\ UNCHANGED <<mgr, timers, socks, conn, Srv, clock, calls, applied>>

\* window.api.invoke('MARK_CHAT_AS_READ', {chatId})
IpcMarkChatAsRead(chatId, throws) ==
    /\ db' = IF ipcHandle("MARK_CHAT_AS_READ", db, [chatId |-> chatId],
                          throws).success
             THEN markChatAsRead(db, chatId)
             ELSE db
    /\ Note(IF throws THEN "MARK_CHAT_AS_READ.error"
            ELSE "MARK_CHAT_AS_READ.ok", 0)
    /\ UNCHANGED <<mgr, timers, socks, conn, View, app, server, nextMsgId,
                   clock, calls, requests, applied>>

\* the ids of the messages of the database
MessageIds(d) == {d.messages[i].id : i \in 1..Len(d.messages)}

\* the thunks with handlers that may fail, and the handler no thunk invokes
NextIpc ==
    \/ \E offset \in {0, Len(chats.items)} : LoadChats(offset)
    \/ \E c \in ChatIds : SelectChat(c)
    \/ \E r \in requests, throws \in BOOLEAN : IpcSettle(r, {}, throws)
    \/ \E c \in ChatIds, throws \in BOOLEAN : IpcMarkChatAsRead(c, throws)

\* the main process is ready and the window is open; the database file
\* holds chats, few or more than a page
InitIpc ==
    /\ mgr = MgrInit
    /\ timers = {}
    /\ socks = [s \in SockIds |-> FreeSock]
    /\ conn = ConnInitialState
    /\ chats = ChatsInitialState
    /\ messages = MessagesInitialState
    /\ app = "ready"
    /\ server = [wss |-> TRUE, messageIntervalId |-> TRUE, intervals |-> 1,
               restarts |-> 0]
    /\ db \in DbStates \cup {DbLarge}
    /\ nextMsgId = 1
    /\ clock = 1
    /\ calls = <<>>
    /\ requests = {}
    /\ last = [op |-> "init", att |-> 0]
    /\ applied = [m \in MsgIds |-> 0]

SpecIpc == InitIpc /\ [][NextIpc]_vars

\* the message view with handlers that answer, and the NEW_MESSAGE events
NextView ==
    \/ LoadChats(0)
    \/ \E c \in ChatIds : SelectChat(c)
    \/ \E empty \in BOOLEAN : Search(empty)
    \/ \E r \in requests, matching \in {{}, MessageIds(db)} :
          IpcSettle(r, matching, FALSE)
    \/ \E c \in ChatIds : DispatchNewMessage(c)

InitView ==
    /\ mgr = MgrInit
    /\ timers = {}
    /\ socks = [s \in SockIds |-> FreeSock]
    /\ conn = ConnInitialState
    /\ chats = ChatsInitialState
    /\ messages = MessagesInitialState
    /\ app = "ready"
    /\ server = [wss |-> TRUE, messageIntervalId |-> TRUE, intervals |-> 1,
               restarts |-> 0]
    /\ db \in DbStates
    /\ nextMsgId = 1
    /\ clock = 1
    /\ calls = <<>>
    /\ requests = {}
    /\ last = [op |-> "init", att |-> 0]
    /\ applied = [m \in MsgIds |-> 0]

SpecView == InitView /\ [][NextView]_vars

\* C32: each IPC handler answers {success: false, error} when the store
\* throws, and a rejected fetchChats or fetchMessages leaves the loaded
\* items, total and hasMore as they were, sets error and clears loading
C32_ErrorsAreAnswers ==
    [][/\ \A ch \in IpcChannels :
             ipcHandle(ch, db, [chatId |-> "c1", offset |-> 0, limit |-> 1,
                                matching |-> {}], TRUE)
                = [success |-> FALSE, error |-> ErrStore]
       /\ last'.op = "fetchChats.rejected"
             => /\ chats'.items = chats.items
                /\ chats'.total = chats.total
                /\ chats'.hasMore = chats.hasMore
                /\ chats'.error = ErrStore
                /\ ~chats'.loading
       /\ last'.op = "fetchMessages.rejected"
             => /\ messages'.items = messages.items
                /\ messages'.total = messages.total
                /\ messages'.hasMore = messages.hasMore
                /\ messages'.error = ErrStore
                /\ ~messages'.loading
       /\ last'.op = "MARK_CHAT_AS_READ.error" => db' = db]_vars

\* a fetchChats and a fetchMessages were rejected over loaded items
C32_Witness ==
    /\ last.op = "fetchMessages.rejected"
    /\ chats.error = ErrStore
    /\ chats.items # <<>>
    /\ messages.items # <<>>
    /\ messages.error = ErrStore

\* the ids of the chats in a list of rows
IdsOf(rows) == {rows[i].id : i \in 1..Len(rows)}

\* C33: the chats slice handles pagination: when the page asked for by
\* 'Load more chats' (offset = number of chats loaded) arrives, the chats
\* loaded before stay in the list, so that loading while hasMore ends with
\* every chat of the store in the list
C33_LoadMoreKeepsPages ==
    [][/\ last'.op = "fetchChats.fulfilled"
       /\ last'.att > 0
       /\ last'.att = Len(chats.items)
       => /\ IdsOf(chats.items) \subseteq IdsOf(chats'.items)
          /\ ~chats'.hasMore => IdsOf(chats'.items) = IdsOf(db.chats)]_vars

(***************************************************************************)
(* The transports of one manager.                                          *)
(***************************************************************************)
\* the sockets the manager created that are CONNECTING or OPEN
LiveSockets == {s \in SockIds : Receiving(socks, s)}

\* C34: a manager owns at most one transport at any time: at most one
\* WebSocket it created is CONNECTING or OPEN, so no orphan socket keeps
\* receiving the server's broadcasts
C34_AtMostOneTransport == ConnectedOnce => Cardinality(LiveSockets) <= 1

\* the socket s was replaced: the manager's current socket is another one
Replaced(s) == mgr.ws # Null /\ mgr.ws # s

\* C35: the close or error event of a socket that is no longer the
\* manager's current socket does not touch the current connection: the
\* status stays as it is, the heartbeat timers stay as they are and no
\* reconnect is scheduled
C35_StaleCloseIsIgnored ==
    [][\A s \in SockIds :
          ConnectedOnce /\ Replaced(s) /\ WsClose(s)
             => /\ conn'.status = conn.status
                /\ TimersOf("hbInterval")' = TimersOf("hbInterval")
                /\ TimersOf("hbTimeout")' = TimersOf("hbTimeout")
                /\ NewReconnectTimers = {}]_vars

\* C36: the manager's reconnectAttempt counter is bounded: it is never
\* below 0 and never above maxReconnectAttempts
C36_AttemptBounded ==
    ConnectedOnce =>
        /\ 0 <= mgr.reconnectAttempt
        /\ mgr.reconnectAttempt <= maxReconnectAttempts

(***************************************************************************)
(* Recovery.  The application calls connect() and never disconnect(); the  *)
(* server, once started, keeps listening; a connection drops when the      *)
(* server terminates it, before the first heartbeat of the manager is due. *)
(* Timers and socket callbacks that stay due are run: the event loop of    *)
(* the renderer and that of the main process do not starve a callback.     *)
(***************************************************************************)
NextLive ==
    \/ ApiConnect
    \/ AppReady
    \/ \E s \in SockIds : ServerAccept(s)
    \/ \E s \in SockIds : WsOpen(s)
    \/ \E s \in SockIds : WsFail(s)
    \/ \E s \in SockIds : WsClose(s)
    \/ \E s \in SockIds : SrvLivenessTick(s)
    \/ \E s \in SockIds : SrvPong(s)
    \/ \E t \in timers : ReconnectFire(t)

Fairness ==
    /\ WF_vars(\E s \in SockIds : ServerAccept(s))
    /\ WF_vars(\E s \in SockIds : WsOpen(s))
    /\ WF_vars(\E s \in SockIds : WsFail(s))
    /\ WF_vars(\E s \in SockIds : WsClose(s))
    /\ WF_vars(\E t \in timers : ReconnectFire(t))

SpecLive == Init /\ [][NextLive]_vars /\ Fairness

\* the connection dropped (no socket of the manager is alive), a retry is
\* left and the server is reachable
Dropped ==
    /\ last.op = "onclose"
    /\ conn.status = "disconnected"
    /\ LiveSockets = {}
    /\ TimersOf("reconnect") # {}
    /\ server.wss

Recovered == conn.status = "connected" /\ mgr.reconnectAttempt = 0

C38_ItemsBelongToSelectedChat ==
    \A i \in 1..Len(messages.items) :
        messages.items[i].chatId = messages.selectedChatId

\* C39: the message view never holds two entries with the same message id,
\* whatever the order of a fetchMessages result read from the store and the
\* NEW_MESSAGE event for a message the store already holds
C39_NoDuplicateMessages ==
    \A i, j \in 1..Len(messages.items) :
        messages.items[i].id = messages.items[j].id => i = j

(***************************************************************************)
(* The server's start, stop and simulated connection drop.  intervals      *)
(* counts the broadcast intervals that are set, restarts the restart       *)
(* timers of simulateConnectionDrop that are pending.                      *)
(***************************************************************************)
\* the most restart timers pending at a time
MaxRestarts == 2

\* simulateConnectionDrop(), called by the SIMULATE_CONNECTION_DROP handler:
\* it returns when wss is null; client.close(1006, ...) is called for every
\* client, and ws rejects 1006 as a close code on an open socket, so with a
\* client connected the call either throws there or closes the clients;
\* then the restart timer of 2000 ms is set
simulateConnectionDrop(rejects) ==
    /\ app = "ready"
    /\ server.restarts < MaxRestarts
    /\ IF ~server.wss \/ (rejects /\ \E s \in SockIds : SrvOpen(socks, s))
       THEN UNCHANGED <<server, socks>>
       ELSE /\ socks' = closeClients(server, socks)
            /\ server' = [server EXCEPT !.restarts = @ + 1]
    /\ Note("drop", 0)
    /\ UNCHANGED <<mgr, timers, conn, View, app, db, nextMsgId, clock, calls,
                   requests, applied>>

\* the setTimeout callback of simulateConnectionDrop:
\* stopWebSocketServer(); startWebSocketServer()
RestartFire ==
    /\ server.restarts > 0
    /\ server' = startWebSocketServer(stopWebSocketServer(
                     [server EXCEPT !.restarts = @ - 1]))
    /\ socks' = closeClients(server, socks)
    /\ Note("restart", 0)
    /\ UNCHANGED <<mgr, timers, conn, View, app, db, nextMsgId, clock, calls,
                   requests, applied>>

NextServer ==
    \/ ApiConnect
    \/ AppReady
    \/ WindowAllClosed
    \/ \E s \in SockIds : ServerAccept(s)
    \/ \E s \in SockIds : WsOpen(s)
    \/ \E s \in SockIds : WsClose(s)
    \/ \E rejects \in BOOLEAN : simulateConnectionDrop(rejects)
    \/ RestartFire
    \/ \E c \in ChatIds : BroadcastTick(c)

SpecServer == InitFiles /\ [][NextServer]_vars

\* C40: after stopWebSocketServer() has returned the server stays stopped
\* (it has no server object and no broadcast timer, so it broadcasts
\* nothing) until the application starts it again, also when
\* simulateConnectionDrop() ran shortly before; and at most one broadcast
\* timer is set at any time
C40_StoppedStaysStopped ==
    /\ app = "closed" => ~server.wss /\ server.intervals = 0
    /\ server.intervals <= 1
=============================================================================
